---- MODULE Spec2Model ----
(***************************************************************************)
(* Model of src/implementation.py: the decomposition of a 32-bit float     *)
(* into two E9S12 values (1 sign bit, 9 exponent bits biased by 139,       *)
(* 12 significand bits, classification flags).                             *)
(*                                                                         *)
(* The 32-bit input word is kept as a bit vector (a function 0..31 ->      *)
(* {0,1}) because TLC integers are signed 32-bit; every field the code     *)
(* extracts by shift-and-mask is extracted here from that vector.          *)
(***************************************************************************)
EXTENDS Integers, Sequences, FiniteSets, TLC

VARIABLES bits, unpack_ret, decomp_ret

vars == <<bits, unpack_ret, decomp_ret>>

(***************************************************************************)
(* Bounds of the model: which fraction fields are enumerated.              *)
(***************************************************************************)
\* fractions within NearWidth of a pivot are inputs
NearWidth == 1

\* pivots 2^k of the fraction field: its lowest bit, the boundary between the
\* two 12-bit limbs for subnormals (2^11) and for normals (2^12), its top bit
\* (2^22) and its end (2^23)
FracPivots == {0, 11, 12, 22, 23}

FracSamples ==
    { f \in UNION { { 2^k + d : d \in (0 - NearWidth)..NearWidth } : k \in FracPivots } :
        f >= 0 /\ f < 2^23 }

SignSamples == {0, 1}

ExpSamples == 0..255

\* the word with sign bit s, exponent field e and fraction field f
Fp32Pattern(s, e, f) ==
    [i \in 0..31 |-> IF i = 31 THEN s
                     ELSE IF i >= 23 THEN (e \div 2^(i - 23)) % 2
                     ELSE (f \div 2^i) % 2]

(***************************************************************************)
(* Integer bit operations used by the code.                                *)
(***************************************************************************)
RECURSIVE FieldSum(_, _, _)
FieldSum(b, lo, width) ==
    IF width = 0 THEN 0
    ELSE b[lo] + 2 * FieldSum(b, lo + 1, width - 1)

\* (b >> lo) & (2^width - 1) on the 32-bit word b
ShrMask(b, lo, width) == FieldSum(b, lo, width)

RECURSIVE BitOr(_, _)
BitOr(a, b) ==
    IF a = 0 THEN b
    ELSE IF b = 0 THEN a
    ELSE (IF a % 2 = 1 \/ b % 2 = 1 THEN 1 ELSE 0) + 2 * BitOr(a \div 2, b \div 2)

Shl(a, k) == a * 2^k

Abs(x) == IF x < 0 THEN 0 - x ELSE x

(***************************************************************************)
(* class E9S12                                                             *)
(***************************************************************************)
EXPONENT_BIAS == 139
SIGNIFICAND_BITS == 12
EXPONENT_BITS == 9

E9S12(sign, exponent, significand, is_zero, is_inf, is_nan) ==
    [sign |-> sign, exponent |-> exponent, significand |-> significand,
     is_zero |-> is_zero, is_inf |-> is_inf, is_nan |-> is_nan]

\* E9S12.to_float.  The result is exact: kind, sign, and the magnitude as an
\* integer count of units of 2^(scale - 150), i.e. of the last place of a
\* float32 whose exponent field is scale (150 = 127 + 23).
to_float(self, scale) ==
    IF self.is_zero THEN [kind |-> "finite", neg |-> self.sign = 1, mag |-> 0]
    ELSE IF self.is_inf THEN [kind |-> "inf", neg |-> self.sign = 1, mag |-> 0]
    ELSE IF self.is_nan THEN [kind |-> "nan", neg |-> FALSE, mag |-> 0]
    ELSE LET unbiased_exp == self.exponent - EXPONENT_BIAS
             \* significand / 2^(SIGNIFICAND_BITS-1) * 2^unbiased_exp, in units
             shift == unbiased_exp - (SIGNIFICAND_BITS - 1) + (127 + 23) - scale
         IN [kind |-> "finite", neg |-> self.sign = 1,
             mag |-> self.significand * 2^shift]

Signed(v) == IF v.neg THEN 0 - v.mag ELSE v.mag

(***************************************************************************)
(* FloatingPointEmulator.unpack_fp32                                       *)
(***************************************************************************)
UnpackSign_bit30(b) == ShrMask(b, 30, 1)
UnpackSign(b) == ShrMask(b, 31, 1)

UnpackExponent(b) == ShrMask(b, 23, 8)

UnpackFraction(b) == ShrMask(b, 0, 23)

IsZero(exponent, fraction) == exponent = 0 /\ fraction = 0

IsInf(exponent, fraction) == exponent = 255 /\ fraction = 0

IsNan(exponent, fraction) == exponent = 255 /\ fraction # 0

IsSubnormal_anyExpZero(exponent, fraction) == exponent = 0
IsSubnormal(exponent, fraction) == exponent = 0 /\ fraction # 0

Significand_noShift(exponent, fraction) ==
    IF exponent = 0 THEN fraction
    ELSE BitOr(Shl(1, 23), fraction)
Significand(exponent, fraction) ==
    IF exponent = 0 THEN Shl(fraction, 1)
    ELSE BitOr(Shl(1, 23), fraction)

unpack_fp32(b) ==
    LET sign == UnpackSign(b)
        exponent == UnpackExponent(b)
        fraction == UnpackFraction(b)
    IN [sign |-> sign,
        exponent |-> exponent,
        significand |-> Significand(exponent, fraction),
        flags |-> [is_zero |-> IsZero(exponent, fraction),
                   is_inf |-> IsInf(exponent, fraction),
                   is_nan |-> IsNan(exponent, fraction),
                   is_subnormal |-> IsSubnormal(exponent, fraction)]]

(***************************************************************************)
(* FloatingPointEmulator.fp32_to_e9s12_decomposition                       *)
(***************************************************************************)
ZeroPair_plus(sign) ==
    << E9S12(0, 0, 0, TRUE, FALSE, FALSE), E9S12(0, 0, 0, TRUE, FALSE, FALSE) >>
ZeroPair(sign) ==
    << E9S12(sign, 0, 0, TRUE, FALSE, FALSE), E9S12(sign, 0, 0, TRUE, FALSE, FALSE) >>

InfPair_exp255(sign) ==
    << E9S12(sign, 255, 0, FALSE, TRUE, FALSE), E9S12(sign, 0, 0, TRUE, FALSE, FALSE) >>
InfPair(sign) ==
    << E9S12(sign, 511, 0, FALSE, TRUE, FALSE), E9S12(sign, 0, 0, TRUE, FALSE, FALSE) >>

NanPair_sig0(sign) ==
    << E9S12(sign, 511, 0, FALSE, FALSE, TRUE), E9S12(sign, 0, 0, TRUE, FALSE, FALSE) >>
NanPair(sign) ==
    << E9S12(sign, 511, 1, FALSE, FALSE, TRUE), E9S12(sign, 0, 0, TRUE, FALSE, FALSE) >>

SigH_noMask(sig) == sig \div 2^11
SigH(sig) == (sig \div 2^12) % 4096

SigL_11bits(sig) == sig % 2048
SigL(sig) == sig % 4096

ExpH_plus11(exp) == exp + 11
ExpH(exp) == exp + 12

ExpL(exp) == exp

SplitPair_noZeroFlag(sign, exp, sig) ==
    << E9S12(sign, ExpH(exp), SigH(sig), FALSE, FALSE, FALSE),
       E9S12(sign, ExpL(exp), SigL(sig), FALSE, FALSE, FALSE) >>
SplitPair(sign, exp, sig) ==
    LET sig_h == SigH(sig)
        sig_l == SigL(sig)
        exp_h == ExpH(exp)
        exp_l == ExpL(exp)
    IN << E9S12(sign, exp_h, sig_h, sig_h = 0, FALSE, FALSE),
          E9S12(sign, exp_l, sig_l, sig_l = 0, FALSE, FALSE) >>

(***************************************************************************)
(* State machine: a caller holds one 32-bit value and may call unpack_fp32 *)
(* and fp32_to_e9s12_decomposition on it; each return value is recorded    *)
(* (<<>> until the call has returned).                                     *)
(***************************************************************************)
Init ==
    /\ \E s \in SignSamples, e \in ExpSamples, f \in FracSamples :
          bits = Fp32Pattern(s, e, f)
    /\ unpack_ret = <<>>
    /\ decomp_ret = <<>>

UnpackFp32 ==
    /\ unpack_ret = <<>>
    /\ unpack_ret' = << unpack_fp32(bits) >>
    /\ UNCHANGED <<bits, decomp_ret>>

DecomposeZero ==
    /\ decomp_ret = <<>>
    /\ LET u == unpack_fp32(bits) IN
          /\ u.flags.is_zero
          /\ decomp_ret' = ZeroPair(u.sign)
    /\ UNCHANGED <<bits, unpack_ret>>

DecomposeInf ==
    /\ decomp_ret = <<>>
    /\ LET u == unpack_fp32(bits) IN
          /\ ~u.flags.is_zero
          /\ u.flags.is_inf
          /\ decomp_ret' = InfPair(u.sign)
    /\ UNCHANGED <<bits, unpack_ret>>

DecomposeNan ==
    /\ decomp_ret = <<>>
    /\ LET u == unpack_fp32(bits) IN
          /\ ~u.flags.is_zero
          /\ ~u.flags.is_inf
          /\ u.flags.is_nan
          /\ decomp_ret' = NanPair(u.sign)
    /\ UNCHANGED <<bits, unpack_ret>>

DecomposeSplit ==
    /\ decomp_ret = <<>>
    /\ LET u == unpack_fp32(bits) IN
          /\ ~u.flags.is_zero
          /\ ~u.flags.is_inf
          /\ ~u.flags.is_nan
          /\ decomp_ret' = SplitPair(u.sign, u.exponent, u.significand)
    /\ UNCHANGED <<bits, unpack_ret>>

Next ==
    \/ UnpackFp32
    \/ DecomposeZero
    \/ DecomposeInf
    \/ DecomposeNan
    \/ DecomposeSplit

Spec == Init /\ [][Next]_vars

(***************************************************************************)
(* The input's fields, read off the word, and the returned pair.           *)
(***************************************************************************)
InSign == bits[31]

InExp == FieldSum(bits, 23, 8)

InFrac == FieldSum(bits, 0, 23)

Returned == decomp_ret # <<>>

high == decomp_ret[1]

low == decomp_ret[2]

Unpacked == unpack_ret # <<>>

FlagCount(p) ==
    (IF p.is_zero THEN 1 ELSE 0) + (IF p.is_inf THEN 1 ELSE 0) + (IF p.is_nan THEN 1 ELSE 0)

\* C1: for every normal input (exponent field 1..254) the returned pair
\* satisfies |input - (high.value + low.value)| / |input| < 2^-23, with
\* input = sig * 2^(exp - 150) and all values counted exactly in units of
\* 2^(exp - 150).
C1_ReconstructionAccuracy ==
    (Returned /\ InExp \in 1..254) =>
        LET a == 2^23 + InFrac
            x == IF InSign = 1 THEN 0 - a ELSE a
            h == to_float(high, InExp)
            l == to_float(low, InExp)
            d == Abs(x - (Signed(h) + Signed(l)))
        IN /\ h.kind = "finite"
           /\ l.kind = "finite"
           /\ d < 2^8
           /\ d * 2^23 < a

C1_Witness ==
    /\ Returned
    /\ InExp = 254
    /\ InSign = 1
    /\ ~high.is_zero
    /\ ~low.is_zero
    /\ Signed(to_float(high, InExp)) + Signed(to_float(low, InExp)) = 0 - (2^23 + InFrac)

\* C2 (as claimed): every returned part that has a classification flag set
\* carries the canonical encoding of that class: is_zero implies exponent 0
\* and significand 0, is_inf implies exponent 511 and significand 0, is_nan
\* implies exponent 511 and significand 1.
C2_CanonicalEncodingAsClaimed ==
    Returned =>
        \A p \in {high, low} :
            /\ p.is_zero => (p.exponent = 0 /\ p.significand = 0)
            /\ p.is_inf => (p.exponent = 511 /\ p.significand = 0)
            /\ p.is_nan => (p.exponent = 511 /\ p.significand = 1)

\* C2 (amended): is_zero implies significand 0, is_inf implies exponent 511
\* and significand 0, is_nan implies exponent 511 and significand 1; a
\* zero-flagged part has exponent 0 when the input is a zero, an infinity or
\* a NaN, and in the normal/subnormal branch it keeps the computed exponent
\* (exponent field + 12 for high, exponent field for low).
C2_FlagEncoding ==
    Returned =>
        /\ \A p \in {high, low} :
              /\ p.is_zero => p.significand = 0
              /\ p.is_inf => (p.exponent = 511 /\ p.significand = 0)
              /\ p.is_nan => (p.exponent = 511 /\ p.significand = 1)
              /\ (p.is_zero /\ (InExp = 255 \/ (InExp = 0 /\ InFrac = 0))) => p.exponent = 0
        /\ (high.is_zero /\ InExp # 255 /\ ~(InExp = 0 /\ InFrac = 0)) => high.exponent = InExp + 12
        /\ (low.is_zero /\ InExp # 255 /\ ~(InExp = 0 /\ InFrac = 0)) => low.exponent = InExp

C2_Witness ==
    /\ Returned
    /\ InExp = 127
    /\ InFrac = 0
    /\ low.is_zero
    /\ low.exponent = 127
    /\ low.significand = 0

\* C3: for every input pattern both returned parts have
\* 0 <= exponent <= 511 and 0 <= significand <= 0xFFF; exp + 12 never
\* exceeds the 9-bit exponent field.
C3_FieldWidths ==
    Returned =>
        \A p \in {high, low} :
            /\ 0 <= p.exponent
            /\ p.exponent <= 2^EXPONENT_BITS - 1
            /\ 0 <= p.significand
            /\ p.significand <= 2^SIGNIFICAND_BITS - 1

C3_Witness ==
    /\ Returned
    /\ InExp = 254
    /\ high.exponent = 266
    /\ high.significand = 4095

\* C4: each returned part has at most one of is_zero, is_inf, is_nan set,
\* and a part with none of them set has a nonzero significand.
C4_FlagsExclusive ==
    Returned =>
        \A p \in {high, low} :
            /\ FlagCount(p) <= 1
            /\ FlagCount(p) = 0 => p.significand # 0

C4_Witness ==
    /\ Returned
    /\ InExp \in 1..254
    /\ FlagCount(high) = 0
    /\ FlagCount(low) = 1
    /\ low.is_zero

\* C5: for every nonzero finite input, high.sign = low.sign = bit 31 of the
\* input, also for a part that is zero-flagged because its limb is 0.
C5_SignPreserved ==
    (Returned /\ InExp # 255 /\ ~(InExp = 0 /\ InFrac = 0)) =>
        /\ high.sign = InSign
        /\ low.sign = InSign

C5_Witness ==
    /\ Returned
    /\ InSign = 1
    /\ InExp = 0
    /\ InFrac # 0
    /\ high.is_zero
    /\ high.sign = 1
    /\ low.sign = 1

\* C6: exponent field 255 with fraction 0 gives high = (sign, 511, 0, is_inf
\* only) and low = (sign, 0, 0, is_zero only); with a nonzero fraction it
\* gives high = (sign, 511, 1, is_nan only) and the same low.
C6_InfNanEncoding ==
    (Returned /\ InExp = 255) =>
        /\ low = E9S12(InSign, 0, 0, TRUE, FALSE, FALSE)
        /\ InFrac = 0 => high = E9S12(InSign, 511, 0, FALSE, TRUE, FALSE)
        /\ InFrac # 0 => high = E9S12(InSign, 511, 1, FALSE, FALSE, TRUE)

C6_Witness ==
    /\ Returned
    /\ InExp = 255
    /\ InFrac = 2^23 - 1
    /\ InSign = 1
    /\ high.is_nan
    /\ low.is_zero

\* C7: +0.0 gives high = low = (0, 0, 0, is_zero only), -0.0 gives
\* high = low = (1, 0, 0, is_zero only), and no other input gives a pair
\* with both parts zero-flagged.
C7_ZeroRoundTrip ==
    Returned =>
        /\ (InExp = 0 /\ InFrac = 0) =>
              /\ high = E9S12(InSign, 0, 0, TRUE, FALSE, FALSE)
              /\ low = E9S12(InSign, 0, 0, TRUE, FALSE, FALSE)
        /\ (high.is_zero /\ low.is_zero) => (InExp = 0 /\ InFrac = 0)

C7_Witness ==
    /\ Returned
    /\ bits = Fp32Pattern(1, 0, 0)
    /\ high.is_zero
    /\ low.is_zero
    /\ high.sign = 1

\* C8: for every normal or subnormal input, with sig the significand from
\* unpack_fp32, (high.significand << 12) | low.significand = sig, with
\* sig = fraction << 1 for subnormals, high.exponent - low.exponent = 12 and
\* low.exponent = the input's exponent field.
C8_SplitExact ==
    (Returned /\ InExp # 255 /\ ~(InExp = 0 /\ InFrac = 0)) =>
        LET sig == unpack_fp32(bits).significand IN
            /\ BitOr(Shl(high.significand, 12), low.significand) = sig
            /\ InExp = 0 => sig = 2 * InFrac
            /\ high.exponent - low.exponent = 12
            /\ low.exponent = InExp

C8_Witness ==
    /\ Returned
    /\ InExp = 0
    /\ InFrac = 2^23 - 1
    /\ high.significand = 4095
    /\ low.significand = 4094

\* C9: unpack_fp32 returns for every pattern; at most one of is_zero,
\* is_subnormal, is_inf, is_nan is true, each exactly on its class, none
\* exactly for exponent fields 1..254; the significand fits in 24 bits, is
\* fraction << 1 for exponent field 0 and fraction with bit 23 set otherwise.
C9_UnpackClassification ==
    /\ ~Unpacked => ENABLED UnpackFp32
    /\ Unpacked =>
        LET u == unpack_ret[1]
            n == (IF u.flags.is_zero THEN 1 ELSE 0) + (IF u.flags.is_subnormal THEN 1 ELSE 0)
                 + (IF u.flags.is_inf THEN 1 ELSE 0) + (IF u.flags.is_nan THEN 1 ELSE 0)
        IN /\ n <= 1
           /\ u.flags.is_zero <=> (InExp = 0 /\ InFrac = 0)
           /\ u.flags.is_subnormal <=> (InExp = 0 /\ InFrac # 0)
           /\ u.flags.is_inf <=> (InExp = 255 /\ InFrac = 0)
           /\ u.flags.is_nan <=> (InExp = 255 /\ InFrac # 0)
           /\ n = 0 <=> InExp \in 1..254
           /\ u.sign = InSign
           /\ u.exponent = InExp
           /\ u.significand >= 0
           /\ u.significand < 2^24
           /\ InExp = 0 => u.significand = 2 * InFrac
           /\ InExp # 0 => u.significand = 2^23 + InFrac

C9_Witness ==
    /\ Unpacked
    /\ unpack_ret[1].flags.is_subnormal
    /\ ~unpack_ret[1].flags.is_zero
    /\ unpack_ret[1].significand = 2^24 - 2

\* C10: for every subnormal input (exponent field 0, fraction f nonzero)
\* high.value + low.value = (-1)^sign * f * 2^-149 exactly; counted in units
\* of 2^-150 the sum is 2 * f.
C10_SubnormalExact ==
    (Returned /\ InExp = 0 /\ InFrac # 0) =>
        LET h == to_float(high, 0)
            l == to_float(low, 0)
        IN /\ h.kind = "finite"
           /\ l.kind = "finite"
           /\ Signed(h) + Signed(l) = (IF InSign = 1 THEN 0 - 2 * InFrac ELSE 2 * InFrac)

C10_Witness ==
    /\ Returned
    /\ InExp = 0
    /\ InFrac = 1
    /\ high.is_zero
    /\ high.exponent = 12
    /\ low.significand = 2
    /\ low.exponent = 0
    /\ Signed(to_float(low, 0)) = (IF InSign = 1 THEN 0 - 2 ELSE 2)

====
